---- MODULE Spec2Model ----
(***************************************************************************)
(* Model of the chariott intent registry (src/src/registry.rs).            *)
(*                                                                         *)
(* The registry owns two indices, external_services_by_intent (a HashMap   *)
(* from IntentConfiguration to a HashSet of ServiceConfiguration) and      *)
(* known_services (a HashSet of ServiceConfiguration), and an observer.    *)
(* Registry::upsert is modelled as one atomic action: validation of the    *)
(* namespaces, pruning of both indices, insertion of the new bindings,     *)
(* re-registration of the identity and the notification of the observer.   *)
(*                                                                         *)
(* Strings on which the code works byte by byte (the namespace of an       *)
(* intent) are sequences of one-character strings; strings that the code   *)
(* only compares for equality (service name, version, url) are TLA+        *)
(* strings.  A HashMap is a function whose DOMAIN is its key set, so that  *)
(* an absent key and a key bound to the empty set are different states.    *)
(***************************************************************************)
EXTENDS Integers, Sequences, FiniteSets, TLC

VARIABLES
    external_services_by_intent,     \* Registry.external_services_by_intent
    known_services,                  \* Registry.known_services
    refresh_calls,                   \* on_change invocations made by the latest upsert
    pre_external_services_by_intent, \* external_services_by_intent when the latest upsert began
    pre_known_services,              \* known_services when the latest upsert began
    call,                            \* the latest upsert: its arguments and how it ended
    tracked,                         \* whether history holds every call since Registry::new
    history,                         \* the calls since Registry::new, while tracked
    observer,                        \* Registry.observer: a MockBroker or a Composite of observers
    deliveries,                      \* on_change invocations the MockBrokers got from the latest upsert
    channels,                        \* Ess: the channel ids for which open created a channel
    serve_call,                      \* Ess: the latest serve_subscriptions, its arguments and result
    spawned,                         \* Ess: the serving tasks the latest serve_subscriptions spawned
    tracker,                         \* a TransactionalRegistryUpdate driven on its own
    tracker_call,                    \* the latest transition of tracker: its arguments and the mark before
    receiver,                        \* MqttMessaging.receiver: the items in the client's channel
    closed,                          \* whether the channel of receiver is closed
    arrivals,                        \* how many items the client has put into the channel
    streams                          \* the streams subscribe returned: topic, items taken, yielded, ended

registry_vars == <<external_services_by_intent, known_services, refresh_calls,
                   pre_external_services_by_intent, pre_known_services, call,
                   tracked, history, observer, deliveries>>

ess_vars == <<channels, serve_call, spawned>>

tracker_vars == <<tracker, tracker_call>>

messaging_vars == <<receiver, closed, arrivals, streams>>

vars == <<registry_vars, ess_vars, tracker_vars, messaging_vars>>

----------------------------------------------------------------------------
(* Bounds *)

\* longest intent list handed to one upsert
MaxIntents == 2

\* longest list of event sources handed to one serve_subscriptions
MaxSources == 2

\* number of calls since Registry::new that history records
MaxCalls == 3

\* number of items the MQTT client puts into its channel
MaxMessages == 3

----------------------------------------------------------------------------
(* ASCII helpers: str::eq_ignore_ascii_case works on u8::to_ascii_lowercase *)

UpperCase == <<"A","B","C","D","E","F","G","H","I","J","K","L","M",
               "N","O","P","Q","R","S","T","U","V","W","X","Y","Z">>

LowerCase == <<"a","b","c","d","e","f","g","h","i","j","k","l","m",
               "n","o","p","q","r","s","t","u","v","w","x","y","z">>

to_ascii_lowercase(c) ==
    IF \E k \in DOMAIN UpperCase : UpperCase[k] = c
    THEN LowerCase[CHOOSE k \in DOMAIN UpperCase : UpperCase[k] = c]
    ELSE c

\* faulty variant: the comparison forgets to fold the case
eq_case_sensitive(a, b) == a = b

eq_ignore_ascii_case(a, b) ==
    /\ Len(a) = Len(b)
    /\ \A k \in 1..Len(a) : to_ascii_lowercase(a[k]) = to_ascii_lowercase(b[k])

SYSTEM_NAMESPACE == <<"s","y","s","t","e","m">>

SYSTEM_NAMESPACE_PREFIX == <<"s","y","s","t","e","m",".">>

\* faulty variant: the prefix alone, with nothing after it, does not match
starts_with_and_continues(string, prefix) ==
    /\ Len(string) > Len(prefix)
    /\ eq_ignore_ascii_case(SubSeq(string, 1, Len(prefix)), prefix)

starts_with_ignore_ascii_case(string, prefix) ==
    /\ Len(string) >= Len(prefix)
    /\ eq_ignore_ascii_case(SubSeq(string, 1, Len(prefix)), prefix)

\* the closure of `intent_configurations.iter().any(..)`
is_system_namespace(ic) ==
    \/ eq_ignore_ascii_case(ic.namespace, SYSTEM_NAMESPACE)
    \/ starts_with_ignore_ascii_case(ic.namespace, SYSTEM_NAMESPACE_PREFIX)

----------------------------------------------------------------------------
(* Catalog entities *)

ServiceId(name, version) == <<name, version>>

ServiceConfiguration(id, url, locality) ==
    [id |-> id, url |-> url, locality |-> locality]

IntentConfiguration(namespace, intent) ==
    [namespace |-> namespace, intent |-> intent]

IntentKind == {"Discover", "Inspect", "Read", "Write", "Invoke", "Subscribe"}

ExecutionLocality == {"Local", "Cloud"}

----------------------------------------------------------------------------
(* Change tracking: TransactionalRegistryUpdate(HashMap<Intent, ChangeKind>) *)

ChangeKind == {"Add", "Remove", "Modify"}

\* TransactionalRegistryUpdate::new
NewUpdate == [map |-> <<>>, panicked |-> FALSE]

\* faulty variant: a pruned and re-bound intent is reported as new
transition_value_remove_add_is_add(from, to) ==
    CASE from = "None" -> to
      [] from = "Remove" /\ to = "Add" -> "Add"
      [] from = "Modify" /\ to = "Modify" -> "Modify"
      [] from = "Add" /\ to = "Modify" -> "Add"
      [] OTHER -> "Panic"

\* faulty variant: an impossible combination stores the new kind
transition_value_coerces(from, to) ==
    CASE from = "None" -> to
      [] from = "Remove" /\ to = "Add" -> "Modify"
      [] from = "Modify" /\ to = "Modify" -> "Modify"
      [] from = "Add" /\ to = "Modify" -> "Add"
      [] OTHER -> to

\* the match of transition; "None" is an absent key, "Panic" the panic! arm
transition_value(from, to) ==
    CASE from = "None" -> to
      [] from = "Remove" /\ to = "Add" -> "Modify"
      [] from = "Modify" /\ to = "Modify" -> "Modify"
      [] from = "Add" /\ to = "Modify" -> "Add"
      [] OTHER -> "Panic"

\* faulty variant: a Remove followed by an Add cancels out and the mark is dropped
transition_cancels(changes, intent, to) ==
    LET from  == IF intent \in DOMAIN changes.map THEN changes.map[intent] ELSE "None"
        value == transition_value(from, to)
    IN  IF value = "Panic"
        THEN [changes EXCEPT !.panicked = TRUE]
        ELSE IF from = "Remove" /\ to = "Add"
        THEN [changes EXCEPT !.map =
                 [i \in (DOMAIN changes.map) \ {intent} |-> changes.map[i]]]
        ELSE [changes EXCEPT !.map =
                 [i \in (DOMAIN changes.map) \cup {intent} |->
                     IF i = intent THEN value ELSE changes.map[i]]]

transition(changes, intent, to) ==
    LET from  == IF intent \in DOMAIN changes.map THEN changes.map[intent] ELSE "None"
        value == transition_value(from, to)
    IN  IF value = "Panic"
        THEN [changes EXCEPT !.panicked = TRUE]
        ELSE [changes EXCEPT !.map =
                 [i \in (DOMAIN changes.map) \cup {intent} |->
                     IF i = intent THEN value ELSE changes.map[i]]]

----------------------------------------------------------------------------
(* Registry *)

\* Registry::new
NewRegistry == [external_services_by_intent |-> <<>>, known_services |-> {}]

has_service(known, key) == key \in known

\* faulty variant: the pruning matches the service name and forgets the version
same_name(service, service_configuration) ==
    service.id[1] = service_configuration.id[1]

\* faulty variant: the pruning matches the whole configuration, not its id
same_config(service, service_configuration) ==
    service = service_configuration

\* the test of both retain closures: `service.id != service_configuration.id`
same_id(service, service_configuration) ==
    service.id = service_configuration.id

\* faulty variant: an entry whose last service is pruned stays, empty
RECURSIVE prune_bindings_keeps_empty(_, _, _, _)
prune_bindings_keeps_empty(keys, by_intent, service_configuration, changes) ==
    IF keys = {} \/ changes.panicked
    THEN [external_services_by_intent |-> by_intent, changes |-> changes]
    ELSE
        LET intent_configuration == CHOOSE k \in keys : TRUE
            services  == by_intent[intent_configuration]
            retained  == {service \in services :
                              ~same_id(service, service_configuration)}
            tracked_changes ==
                IF Cardinality(services) # Cardinality(retained)
                THEN transition(changes, intent_configuration,
                                IF Cardinality(retained) = 0 THEN "Remove" ELSE "Modify")
                ELSE changes
            kept == [i \in DOMAIN by_intent |->
                        IF i = intent_configuration THEN retained ELSE by_intent[i]]
        IN  prune_bindings_keeps_empty(keys \ {intent_configuration}, kept,
                                       service_configuration, tracked_changes)

\* The retain over the intent index.  Every key is visited once, in the
\* map's iteration order; the visits touch different keys of both maps, so
\* the order cannot be seen in the result and CHOOSE stands for it.
RECURSIVE prune_bindings(_, _, _, _)
prune_bindings(keys, by_intent, service_configuration, changes) ==
    IF keys = {} \/ changes.panicked
    THEN [external_services_by_intent |-> by_intent, changes |-> changes]
    ELSE
        LET intent_configuration == CHOOSE k \in keys : TRUE
            services  == by_intent[intent_configuration]
            retained  == {service \in services :
                              ~same_id(service, service_configuration)}
            tracked_changes ==
                IF Cardinality(services) # Cardinality(retained)
                THEN transition(changes, intent_configuration,
                                IF Cardinality(retained) = 0 THEN "Remove" ELSE "Modify")
                ELSE changes
            kept == IF retained # {}
                    THEN [i \in DOMAIN by_intent |->
                             IF i = intent_configuration THEN retained ELSE by_intent[i]]
                    ELSE [i \in (DOMAIN by_intent) \ {intent_configuration} |-> by_intent[i]]
        IN  prune_bindings(keys \ {intent_configuration}, kept,
                           service_configuration, tracked_changes)

\* faulty variant: every version of the service name is dropped
prune_known_by_name(known, service_configuration) ==
    {service \in known : ~same_name(service, service_configuration)}

\* faulty variant: only a structurally equal configuration is dropped
prune_known_exact(known, service_configuration) ==
    known \ {service_configuration}

\* known_services.retain(|service| service.id != service_configuration.id)
prune_known(known, service_configuration) ==
    {service \in known : ~same_id(service, service_configuration)}

\* faulty variant: the entry is overwritten instead of extended
insert_binding_overwrites(by_intent, intent_configuration, service_configuration) ==
    [i \in (DOMAIN by_intent) \cup {intent_configuration} |->
        IF i = intent_configuration THEN {service_configuration} ELSE by_intent[i]]

\* entry(intent).or_insert_with(HashSet::new).insert(service)
insert_binding(by_intent, intent_configuration, service_configuration) ==
    [i \in (DOMAIN by_intent) \cup {intent_configuration} |->
        IF i = intent_configuration
        THEN (IF i \in DOMAIN by_intent THEN by_intent[i] ELSE {})
                 \cup {service_configuration}
        ELSE by_intent[i]]

\* faulty variant: contains_key is asked after the service is inserted
RECURSIVE add_bindings_checks_late(_, _, _, _)
add_bindings_checks_late(intent_configurations, by_intent, service_configuration, changes) ==
    IF intent_configurations = <<>> \/ changes.panicked
    THEN [external_services_by_intent |-> by_intent, changes |-> changes]
    ELSE
        LET intent_configuration == Head(intent_configurations)
            inserted == insert_binding(by_intent, intent_configuration,
                                       service_configuration)
            tracked_changes ==
                transition(changes, intent_configuration,
                           IF intent_configuration \in DOMAIN inserted
                           THEN "Modify" ELSE "Add")
        IN  IF tracked_changes.panicked
            THEN [external_services_by_intent |-> by_intent, changes |-> tracked_changes]
            ELSE add_bindings_checks_late(Tail(intent_configurations), inserted,
                                          service_configuration, tracked_changes)

\* faulty variant: an intent whose entry the pruning removed is not bound again
RECURSIVE add_bindings_skips_pruned(_, _, _, _)
add_bindings_skips_pruned(intent_configurations, by_intent, service_configuration, changes) ==
    IF intent_configurations = <<>> \/ changes.panicked
    THEN [external_services_by_intent |-> by_intent, changes |-> changes]
    ELSE
        LET intent_configuration == Head(intent_configurations)
            was_removed ==
                /\ intent_configuration \in DOMAIN changes.map
                /\ changes.map[intent_configuration] = "Remove"
            tracked_changes ==
                transition(changes, intent_configuration,
                           IF intent_configuration \in DOMAIN by_intent
                           THEN "Modify" ELSE "Add")
        IN  IF tracked_changes.panicked
            THEN [external_services_by_intent |-> by_intent, changes |-> tracked_changes]
            ELSE add_bindings_skips_pruned(
                     Tail(intent_configurations),
                     IF was_removed
                     THEN by_intent
                     ELSE insert_binding(by_intent, intent_configuration,
                                         service_configuration),
                     service_configuration,
                     IF was_removed THEN changes ELSE tracked_changes)

\* the for loop over intent_configurations; a panic leaves the loop where it is
RECURSIVE add_bindings(_, _, _, _)
add_bindings(intent_configurations, by_intent, service_configuration, changes) ==
    IF intent_configurations = <<>> \/ changes.panicked
    THEN [external_services_by_intent |-> by_intent, changes |-> changes]
    ELSE
        LET intent_configuration == Head(intent_configurations)
            tracked_changes ==
                transition(changes, intent_configuration,
                           IF intent_configuration \in DOMAIN by_intent
                           THEN "Modify" ELSE "Add")
        IN  IF tracked_changes.panicked
            THEN [external_services_by_intent |-> by_intent, changes |-> tracked_changes]
            ELSE add_bindings(Tail(intent_configurations),
                              insert_binding(by_intent, intent_configuration,
                                             service_configuration),
                              service_configuration, tracked_changes)

\* the orders in which a HashMap with these keys can be iterated
iteration_orders(keys) ==
    {order \in [1..Cardinality(keys) -> keys] :
        \A j, k \in 1..Cardinality(keys) : order[j] = order[k] => j = k}

\* faulty variant: a Change carries the known services, not the intent's
change_of_known(changes, registry, intent) ==
    CASE changes.map[intent] = "Add" ->
            [kind |-> "Add", intent |-> intent, services |-> registry.known_services]
      [] changes.map[intent] = "Modify" ->
            [kind |-> "Modify", intent |-> intent, services |-> registry.known_services]
      [] changes.map[intent] = "Remove" ->
            [kind |-> "Remove", intent |-> intent]

\* the closure of observe's map: one Change per entry of the tracker
change_of(changes, registry, intent) ==
    CASE changes.map[intent] = "Add" ->
            [kind |-> "Add", intent |-> intent,
             services |-> registry.external_services_by_intent[intent]]
      [] changes.map[intent] = "Modify" ->
            [kind |-> "Modify", intent |-> intent,
             services |-> registry.external_services_by_intent[intent]]
      [] changes.map[intent] = "Remove" ->
            [kind |-> "Remove", intent |-> intent]

\* faulty variant: the observer is invoked whether or not there are changes
observe_always(changes, registry, order) ==
    LET batch == [k \in 1..Len(order) |-> change_of(changes, registry, order[k])]
    IN  << [changes |-> batch, registry |-> registry] >>

\* faulty variant: the observer is invoked once per change
observe_per_change(changes, registry, order) ==
    [k \in 1..Len(order) |->
        [changes |-> << change_of(changes, registry, order[k]) >>,
         registry |-> registry]]

\* faulty variant: a Modify is reported as a Modify and, again, as a Remove
observe_unmerged(changes, registry, order) ==
    LET batch == [k \in 1..Len(order) |-> change_of(changes, registry, order[k])]
        modified == SelectSeq(order, LAMBDA i : changes.map[i] = "Modify")
        stale == [k \in 1..Len(modified) |-> [kind |-> "Remove", intent |-> modified[k]]]
    IN  IF Len(batch) > 0
        THEN << [changes |-> stale \o batch, registry |-> registry] >>
        ELSE << >>

\* faulty variant: the batch leaves out the intents that lost their entry
observe_skips_removes(changes, registry, order) ==
    LET kept  == SelectSeq(order, LAMBDA i : changes.map[i] # "Remove")
        batch == [k \in 1..Len(kept) |-> change_of(changes, registry, kept[k])]
    IN  IF Len(batch) > 0
        THEN << [changes |-> batch, registry |-> registry] >>
        ELSE << >>

\* TransactionalRegistryUpdate::observe: the on_change invocations it makes.
\* An invocation is the batch handed over and the registry as it is then.
observe(changes, registry, order) ==
    LET batch == [k \in 1..Len(order) |-> change_of(changes, registry, order[k])]
    IN  IF Len(batch) > 0
        THEN << [changes |-> batch, registry |-> registry] >>
        ELSE << >>

\* faulty variant: an empty intent list only registers the identity
upsert_mutation_empty_only_registers(registry, service_configuration, intent_configurations) ==
    LET pruned == prune_bindings(DOMAIN registry.external_services_by_intent,
                                 registry.external_services_by_intent,
                                 service_configuration, NewUpdate)
        known_pruned == prune_known(registry.known_services, service_configuration)
        bound  == add_bindings(intent_configurations,
                               pruned.external_services_by_intent,
                               service_configuration, pruned.changes)
    IN  IF \E k \in DOMAIN intent_configurations :
               is_system_namespace(intent_configurations[k])
        THEN [result |-> "Err", registry |-> registry, changes |-> NewUpdate]
        ELSE IF intent_configurations = << >>
        THEN [result |-> "Ok",
              registry |-> [external_services_by_intent |->
                                registry.external_services_by_intent,
                            known_services |-> known_pruned \cup {service_configuration}],
              changes |-> NewUpdate]
        ELSE [result |-> IF bound.changes.panicked THEN "Panic" ELSE "Ok",
              registry |-> [external_services_by_intent |->
                                bound.external_services_by_intent,
                            known_services |-> known_pruned \cup {service_configuration}],
              changes |-> bound.changes]

\* faulty variant: the namespaces are validated after the pruning
upsert_mutation_validates_late(registry, service_configuration, intent_configurations) ==
    LET pruned == prune_bindings(DOMAIN registry.external_services_by_intent,
                                 registry.external_services_by_intent,
                                 service_configuration, NewUpdate)
        known_pruned == prune_known(registry.known_services, service_configuration)
        bound  == add_bindings(intent_configurations,
                               pruned.external_services_by_intent,
                               service_configuration, pruned.changes)
    IN  IF \E k \in DOMAIN intent_configurations :
               is_system_namespace(intent_configurations[k])
        THEN [result |-> "Err",
              registry |-> [external_services_by_intent |->
                                pruned.external_services_by_intent,
                            known_services |-> known_pruned],
              changes |-> NewUpdate]
        ELSE [result |-> IF bound.changes.panicked THEN "Panic" ELSE "Ok",
              registry |-> [external_services_by_intent |->
                                bound.external_services_by_intent,
                            known_services |-> known_pruned \cup {service_configuration}],
              changes |-> bound.changes]

\* Registry::upsert up to the notification: validation, pruning of both
\* indices, the new bindings, the identity.
upsert_mutation(registry, service_configuration, intent_configurations) ==
    IF \E k \in DOMAIN intent_configurations :
           is_system_namespace(intent_configurations[k])
    THEN [result |-> "Err", registry |-> registry, changes |-> NewUpdate]
    ELSE
        LET pruned == prune_bindings(DOMAIN registry.external_services_by_intent,
                                     registry.external_services_by_intent,
                                     service_configuration, NewUpdate)
            known_pruned == prune_known(registry.known_services, service_configuration)
            bound  == add_bindings(intent_configurations,
                                   pruned.external_services_by_intent,
                                   service_configuration, pruned.changes)
        IN  IF pruned.changes.panicked
            THEN [result |-> "Panic",
                  registry |-> [external_services_by_intent |->
                                    pruned.external_services_by_intent,
                                known_services |-> registry.known_services],
                  changes |-> pruned.changes]
            ELSE IF bound.changes.panicked
            THEN [result |-> "Panic",
                  registry |-> [external_services_by_intent |->
                                    bound.external_services_by_intent,
                                known_services |-> known_pruned],
                  changes |-> bound.changes]
            ELSE [result |-> "Ok",
                  registry |-> [external_services_by_intent |->
                                    bound.external_services_by_intent,
                                known_services |-> known_pruned \cup {service_configuration}],
                  changes |-> bound.changes]

\* the notification that ends Registry::upsert: `changes.observe(..)` and
\* `Ok(())`, or the return that came before it
upsert_notification(done, order) ==
    [result   |-> done.result,
     registry |-> done.registry,
     on_change |-> IF done.result = "Ok"
                   THEN observe(done.changes, done.registry, order)
                   ELSE << >>]

\* faulty variant: the observer is notified before the identity is
\* registered again
upsert_notifies_early(registry, service_configuration, intent_configurations, order) ==
    LET done == upsert_mutation(registry, service_configuration, intent_configurations)
        early == [done EXCEPT !.registry.known_services =
                     prune_known(registry.known_services, service_configuration)]
    IN  [result   |-> done.result,
         registry |-> done.registry,
         on_change |-> upsert_notification(early, order).on_change]

\* faulty variant: the namespaces are validated last, after the observer
\* was notified
upsert_validates_last(registry, service_configuration, intent_configurations, order) ==
    LET pruned == prune_bindings(DOMAIN registry.external_services_by_intent,
                                 registry.external_services_by_intent,
                                 service_configuration, NewUpdate)
        known_pruned == prune_known(registry.known_services, service_configuration)
        bound  == add_bindings(intent_configurations,
                               pruned.external_services_by_intent,
                               service_configuration, pruned.changes)
        left   == [external_services_by_intent |-> bound.external_services_by_intent,
                   known_services |-> known_pruned \cup {service_configuration}]
        late_order == CHOOSE o \in iteration_orders(DOMAIN bound.changes.map) : TRUE
    IN  IF \E k \in DOMAIN intent_configurations :
               is_system_namespace(intent_configurations[k])
        THEN [result   |-> "Err",
              registry |-> left,
              on_change |-> observe(bound.changes, left, late_order)]
        ELSE upsert_notification(
                 upsert_mutation(registry, service_configuration, intent_configurations),
                 order)

\* Registry::upsert: what it returns, the registry it leaves and the
\* on_change invocations it made
upsert(registry, service_configuration, intent_configurations, order) ==
    upsert_notification(
        upsert_mutation(registry, service_configuration, intent_configurations),
        order)

----------------------------------------------------------------------------
(* Observers *)

\* an observer that records what it is handed, as the MockBroker of the tests
MockBroker(name) == [kind |-> "MockBroker", name |-> name]

\* Composite::new
Composite(left, right) == [kind |-> "Composite", left |-> left, right |-> right]

\* faulty variant: the wrapped observers are invoked right to left
RECURSIVE on_change_right_first(_, _)
on_change_right_first(target, changes) ==
    IF target.kind = "Composite"
    THEN on_change_right_first(target.right, changes)
             \o on_change_right_first(target.left, changes)
    ELSE << [observer |-> target.name, changes |-> changes] >>

\* Observer::on_change: the invocations that reach the MockBrokers, in the
\* order they are made.  A Composite hands a clone of the iterator to its
\* left observer and then the iterator to its right one; the clone of an
\* iterator that was not advanced yields the same items in the same order.
RECURSIVE on_change(_, _)
on_change(target, changes) ==
    IF target.kind = "Composite"
    THEN on_change(target.left, changes) \o on_change(target.right, changes)
    ELSE << [observer |-> target.name, changes |-> changes] >>

\* what the observer of the registry makes of the invocations of one upsert
RECURSIVE notify(_, _)
notify(target, invocations) ==
    IF invocations = << >>
    THEN << >>
    ELSE on_change(target, Head(invocations).changes)
             \o notify(target, Tail(invocations))

----------------------------------------------------------------------------
(* Event sub-system: Ess over ess::EventSubSystem *)

\* EventSubSystem::read_events: a channel is created for the client id
read_events(opened, client_id) == opened \cup {client_id}

\* EventSubSystem::register_subscriptions: an error when no channel was
\* created for the client id, one subscription per source otherwise
register_subscriptions(opened, client_id, sources) ==
    IF client_id \in opened
    THEN [ok |-> TRUE, subscriptions |-> sources]
    ELSE [ok |-> FALSE, subscriptions |-> << >>]

\* faulty variant: the error of register_subscriptions is dropped
serve_subscriptions_swallows_error(opened, subscribe_intent) ==
    LET subscriptions == register_subscriptions(opened, subscribe_intent.channel_id,
                                                subscribe_intent.sources)
    IN  [result  |-> [ok |-> TRUE, code |-> "Ok", message |-> ""],
         spawned |-> [k \in DOMAIN subscriptions.subscriptions |->
                         [channel_id |-> subscribe_intent.channel_id,
                          source |-> subscriptions.subscriptions[k]]]]

\* Ess::serve_subscriptions: the Result it returns and the tasks it spawns
serve_subscriptions(opened, subscribe_intent) ==
    LET subscriptions == register_subscriptions(opened, subscribe_intent.channel_id,
                                                subscribe_intent.sources)
    IN  IF ~subscriptions.ok
        THEN [result  |-> [ok |-> FALSE, code |-> "FailedPrecondition",
                           message |-> "The specified client does not exist."],
              spawned |-> << >>]
        ELSE [result  |-> [ok |-> TRUE, code |-> "Ok", message |-> ""],
              spawned |-> [k \in DOMAIN subscriptions.subscriptions |->
                              [channel_id |-> subscribe_intent.channel_id,
                               source |-> subscriptions.subscriptions[k]]]]

----------------------------------------------------------------------------
(* MQTT messaging: MqttMessaging over the stream of the paho client *)

\* the capacity of the channel that client.get_stream creates
MQTT_CLIENT_BUFFER_SIZE == 200

\* the items of the channel: Some(message), numbered as it arrives, or the
\* None that marks a lost connection
SomeMessage(topic, number) == [some |-> TRUE, topic |-> topic, number |-> number]

ConnectionLost(number) == [some |-> FALSE, topic |-> "", number |-> number]

\* the stream subscribe returns, before it is polled; since is the number of
\* items that had arrived when it was made
NewStream(topic, since) ==
    [topic |-> topic, since |-> since, taken |-> << >>, yielded |-> << >>,
     ended |-> FALSE]

\* faulty variant: the None of a lost connection ends the stream
stream_next_stops_at_none(stream, channel, is_closed) ==
    IF channel = << >>
    THEN [stream  |-> [stream EXCEPT !.ended = is_closed],
          channel |-> channel]
    ELSE LET message == Head(channel)
         IN  [stream  |-> [stream EXCEPT
                              !.taken = Append(@, message),
                              !.yielded = IF message.some /\ stream.topic = message.topic
                                          THEN Append(@, message)
                                          ELSE @,
                              !.ended = ~message.some],
              channel |-> Tail(channel)]

\* One turn of the loop of the stream: receiver.next() on the clone of the
\* receiver takes the oldest item of the channel that all clones share, or
\* ends the loop when the channel is closed and empty; a message of the
\* topic is yielded, any other item is dropped.
stream_next(stream, channel, is_closed) ==
    IF channel = << >>
    THEN [stream  |-> [stream EXCEPT !.ended = is_closed],
          channel |-> channel]
    ELSE LET message == Head(channel)
         IN  [stream  |-> [stream EXCEPT
                              !.taken = Append(@, message),
                              !.yielded = IF message.some /\ stream.topic = message.topic
                                          THEN Append(@, message)
                                          ELSE @],
              channel |-> Tail(channel)]

----------------------------------------------------------------------------
(* Inputs *)

SeqsUpTo(S, n) == UNION {[1..k -> S] : k \in 0..n}

A == ServiceConfiguration(ServiceId("mock-service-A", "0.1.0"), "http://service-A", "Cloud")

A_url == ServiceConfiguration(ServiceId("mock-service-A", "0.1.0"), "http://service-a-new", "Cloud")

A_loc == ServiceConfiguration(ServiceId("mock-service-A", "0.1.0"), "http://service-A", "Local")

A_v2 == ServiceConfiguration(ServiceId("mock-service-A", "10.30.40"), "http://service-A", "Cloud")

B == ServiceConfiguration(ServiceId("mock-service-B", "0.1.0"), "http://service-B", "Cloud")

I1 == IntentConfiguration(<<"n","s","1">>, "Discover")

I2 == IntentConfiguration(<<"n","s","1">>, "Read")

ISystem == IntentConfiguration(<<"s","y","s","t","e","m",".","r","e","g","i","s","t","r","y">>, "Discover")

Services == {A, A_url, A_v2}

Intents == {I1, I2, ISystem}

IntentLists == SeqsUpTo(Intents, MaxIntents)

\* the arguments of the scenarios that are followed from Registry::new
ScenarioServices == {A, A_url, A_loc, B}

ScenarioIntentLists == {<< >>, <<I1>>, <<I2>>, <<I1, I2>>}

\* the namespaces of when_upserting_system_binding_returns_error and their
\* neighbours
GuardNamespaces ==
    { <<"s","y","s","t","e","m">>,
      <<"S","y","s","t","e","m">>,
      <<"s","y","s","t","e","m",".","a","n","y","t","h","i","n","g">>,
      <<"s","y","s","t","e","m",".">>,
      <<"S","Y","S","T","E","M",".">>,
      <<"s","y","s","t","e","m","f","o","o">>,
      <<"n","s","1">> }

GuardIntents == {IntentConfiguration(ns, "Discover") : ns \in GuardNamespaces}

GuardIntentLists == SeqsUpTo(GuardIntents, MaxIntents)

\* the observers a registry is built with
Observers ==
    { Composite(MockBroker("left"), MockBroker("right")),
      Composite(Composite(MockBroker("left"), MockBroker("middle")), MockBroker("right")),
      Composite(MockBroker("left"), Composite(MockBroker("middle"), MockBroker("right"))) }

\* the values Uuid::new_v4 can give, and the client of
\* serve_subscriptions_should_error_when_no_client_active
ChannelIds == {"uuid-1", "uuid-2", "client"}

EventSources == {"test-event-a", "test-event-b"}

SourceLists == SeqsUpTo(EventSources, MaxSources)

\* the topics of the cloud-to-device messages
Topics == {"c2d/1", "c2d/2"}

\* the streams that are asked for, at most one each
StreamIds == {"first", "second"}

----------------------------------------------------------------------------
(* The state machine *)

NoCall == [config |-> ServiceConfiguration(ServiceId("", ""), "", "Local"),
           intents |-> << >>, result |-> "None"]

Registry == [external_services_by_intent |-> external_services_by_intent,
             known_services |-> known_services]

NoServe == [channel_id |-> "", sources |-> << >>, opened |-> {},
            result |-> [ok |-> TRUE, code |-> "None", message |-> ""]]

NoTransition == [intent |-> I1, from |-> "None", to |-> "None", before |-> << >>]

\* TransactionalRegistryUpdate::new
InitTracker ==
    /\ tracker = NewUpdate
    /\ tracker_call = NoTransition

\* MqttMessaging::connect: the stream of the client, no subscription yet
InitMessaging ==
    /\ receiver = << >>
    /\ closed = FALSE
    /\ arrivals = 0
    /\ streams = << >>

\* Ess::new
InitEss ==
    /\ channels = {}
    /\ serve_call = NoServe
    /\ spawned = << >>

InitRegistry ==
    /\ external_services_by_intent = NewRegistry.external_services_by_intent
    /\ known_services = NewRegistry.known_services
    /\ refresh_calls = << >>
    /\ pre_external_services_by_intent = NewRegistry.external_services_by_intent
    /\ pre_known_services = NewRegistry.known_services
    /\ call = NoCall
    /\ history = << >>
    /\ deliveries = << >>
    /\ InitEss
    /\ InitTracker
    /\ InitMessaging

Init == InitRegistry /\ tracked = FALSE /\ observer = MockBroker("broker")

InitScenario == InitRegistry /\ tracked = TRUE /\ observer = MockBroker("broker")

InitComposite == InitRegistry /\ tracked = FALSE /\ observer \in Observers

\* one call of Registry::upsert, with the observer's log cleared before it
Upsert(service_configuration, intent_configurations) ==
    \E done \in {upsert_mutation(Registry, service_configuration,
                                 intent_configurations)} :
    \E order \in iteration_orders(DOMAIN done.changes.map) :
    \E out \in {upsert(Registry, service_configuration,
                       intent_configurations, order)} :
    \E this \in {[config |-> service_configuration,
                  intents |-> intent_configurations,
                  result |-> out.result]} :
        /\ external_services_by_intent' = out.registry.external_services_by_intent
        /\ known_services' = out.registry.known_services
        /\ refresh_calls' = out.on_change
        /\ pre_external_services_by_intent' = external_services_by_intent
        /\ pre_known_services' = known_services
        /\ call' = this
        /\ tracked' = (tracked /\ Len(history) < MaxCalls)
        /\ history' = IF tracked /\ Len(history) < MaxCalls
                      THEN Append(history, this)
                      ELSE << >>
        /\ observer' = observer
        /\ deliveries' = notify(observer, out.on_change)
        /\ UNCHANGED <<ess_vars, tracker_vars, messaging_vars>>

\* ChannelService::open: a channel is created under a new uuid
Open(id) ==
    /\ id \notin channels
    /\ channels' = read_events(channels, id)
    /\ UNCHANGED <<serve_call, spawned>>
    /\ UNCHANGED <<registry_vars, tracker_vars, messaging_vars>>

\* one call of Ess::serve_subscriptions
ServeSubscriptions(channel_id, sources) ==
    \E out \in {serve_subscriptions(channels,
                    [channel_id |-> channel_id, sources |-> sources])} :
        /\ serve_call' = [channel_id |-> channel_id, sources |-> sources,
                          opened |-> channels, result |-> out.result]
        /\ spawned' = out.spawned
        /\ UNCHANGED channels
        /\ UNCHANGED <<registry_vars, tracker_vars, messaging_vars>>

\* TransactionalRegistryUpdate::new for the next transaction
NewTracker ==
    /\ tracker' = NewUpdate
    /\ tracker_call' = NoTransition
    /\ UNCHANGED <<registry_vars, ess_vars, messaging_vars>>

\* one call of TransactionalRegistryUpdate::transition; a panic ends the
\* transaction
Transition(intent, to) ==
    /\ ~tracker.panicked
    /\ tracker' = transition(tracker, intent, to)
    /\ tracker_call' = [intent |-> intent,
                        from |-> IF intent \in DOMAIN tracker.map
                                 THEN tracker.map[intent] ELSE "None",
                        to |-> to,
                        before |-> tracker.map]
    /\ UNCHANGED <<registry_vars, ess_vars, messaging_vars>>

\* MqttMessaging::subscribe, the broker accepting the subscription
Subscribe(id, topic) ==
    /\ id \notin DOMAIN streams
    /\ streams' = [k \in (DOMAIN streams) \cup {id} |->
                      IF k = id THEN NewStream(topic, arrivals) ELSE streams[k]]
    /\ UNCHANGED <<receiver, closed, arrivals>>
    /\ UNCHANGED <<registry_vars, ess_vars, tracker_vars>>

\* the client puts a message of a topic into its channel
Arrive(topic) ==
    /\ ~closed
    /\ arrivals < MaxMessages
    /\ Len(receiver) < MQTT_CLIENT_BUFFER_SIZE
    /\ receiver' = Append(receiver, SomeMessage(topic, arrivals + 1))
    /\ arrivals' = arrivals + 1
    /\ UNCHANGED <<closed, streams>>
    /\ UNCHANGED <<registry_vars, ess_vars, tracker_vars>>

\* the client loses the connection and puts None into its channel
LoseConnection ==
    /\ ~closed
    /\ arrivals < MaxMessages
    /\ Len(receiver) < MQTT_CLIENT_BUFFER_SIZE
    /\ receiver' = Append(receiver, ConnectionLost(arrivals + 1))
    /\ arrivals' = arrivals + 1
    /\ UNCHANGED <<closed, streams>>
    /\ UNCHANGED <<registry_vars, ess_vars, tracker_vars>>

\* the channel is closed
Close ==
    /\ ~closed
    /\ closed' = TRUE
    /\ UNCHANGED <<receiver, arrivals, streams>>
    /\ UNCHANGED <<registry_vars, ess_vars, tracker_vars>>

\* the consumer of a stream polls it and the loop takes one turn
Poll(id) ==
    /\ id \in DOMAIN streams
    /\ ~streams[id].ended
    /\ receiver # << >> \/ closed
    /\ \E out \in {stream_next(streams[id], receiver, closed)} :
           /\ streams' = [streams EXCEPT ![id] = out.stream]
           /\ receiver' = out.channel
    /\ UNCHANGED <<closed, arrivals>>
    /\ UNCHANGED <<registry_vars, ess_vars, tracker_vars>>

Next == \E s \in Services, is \in IntentLists : Upsert(s, is)

NextScenario == \E s \in ScenarioServices, is \in ScenarioIntentLists : Upsert(s, is)

NextGuard == \E is \in GuardIntentLists : Upsert(A, is)

Spec == Init /\ [][Next]_vars

SpecScenario == InitScenario /\ [][NextScenario]_vars

NextEss ==
    \/ \E id \in ChannelIds \ {"client"} : Open(id)
    \/ \E id \in ChannelIds, sources \in SourceLists : ServeSubscriptions(id, sources)

SpecGuard == Init /\ [][NextGuard]_vars

SpecComposite == InitComposite /\ [][NextScenario]_vars

SpecEss == Init /\ [][NextEss]_vars

NextTracker ==
    \/ NewTracker
    \/ \E intent \in Intents, to \in ChangeKind : Transition(intent, to)

SpecTracker == Init /\ [][NextTracker]_vars

NextMessaging ==
    \/ \E id \in StreamIds, topic \in Topics : Subscribe(id, topic)
    \/ \E topic \in Topics : Arrive(topic)
    \/ LoseConnection
    \/ Close
    \/ \E id \in StreamIds : Poll(id)

SpecMessaging == Init /\ [][NextMessaging]_vars

----------------------------------------------------------------------------
(* Vocabulary of the properties *)

AllServices == Services \cup ScenarioServices

\* the services bound to an intent, none when the intent has no entry
Binding(by_intent, intent) ==
    IF intent \in DOMAIN by_intent THEN by_intent[intent] ELSE {}

Range(seq) == {seq[k] : k \in DOMAIN seq}

\* the intents that had an entry before or have one after the latest call
IntentsInPlay ==
    (DOMAIN pre_external_services_by_intent) \cup (DOMAIN external_services_by_intent)

\* the intents to which the id of the latest call was bound before it
BoundBefore ==
    {i \in DOMAIN pre_external_services_by_intent :
        \E s \in pre_external_services_by_intent[i] : s.id = call.config.id}

\* the last call recorded in history and the one before it
Last == history[Len(history)]

Previous == history[Len(history) - 1]

----------------------------------------------------------------------------
(* Properties *)

\* C1: an upsert rejected for a reserved namespace leaves the registry as it
\* was: has_service answers the same for every configuration and every
\* intent maps to the same service set.
C1_RejectionIsAtomic ==
    call.result = "Err" =>
        /\ \A s \in AllServices :
               has_service(known_services, s) = has_service(pre_known_services, s)
        /\ DOMAIN external_services_by_intent = DOMAIN pre_external_services_by_intent
        /\ \A i \in IntentsInPlay :
               Binding(external_services_by_intent, i)
                   = Binding(pre_external_services_by_intent, i)

\* a rejected call of a registered and bound service, with a valid intent
\* next to the reserved one
C1_Witness ==
    /\ call.result = "Err"
    /\ Len(call.intents) = 2
    /\ \E k \in DOMAIN call.intents : ~is_system_namespace(call.intents[k])
    /\ \E s \in pre_known_services : s.id = call.config.id
    /\ BoundBefore # {}

\* the namespaces the namespace guard is said to reject
ReservedExamples ==
    { <<"s","y","s","t","e","m">>,
      <<"S","y","s","t","e","m">>,
      <<"s","y","s","t","e","m",".","a","n","y","t","h","i","n","g">>,
      <<"s","y","s","t","e","m",".">>,
      <<"S","Y","S","T","E","M",".">> }

\* the same, said in general: "system", or something after "system."
ReservedInGeneral(namespace) ==
    LET lower == [k \in 1..Len(namespace) |-> to_ascii_lowercase(namespace[k])]
    IN  \/ lower = <<"s","y","s","t","e","m">>
        \/ /\ Len(lower) >= 7
           /\ \A k \in 1..7 : lower[k] = <<"s","y","s","t","e","m",".">>[k]

\* C2: upsert returns an error exactly when a submitted namespace is
\* "system" or starts with "system.", ignoring ASCII case; "systemfoo" and
\* every other namespace is accepted.
C2_NamespaceGuard ==
    call.result # "None" =>
        /\ call.result \in {"Ok", "Err"}
        /\ (call.result = "Err")
               <=> (\E k \in DOMAIN call.intents :
                        call.intents[k].namespace \in ReservedExamples)
        /\ (call.result = "Err")
               <=> (\E k \in DOMAIN call.intents :
                        ReservedInGeneral(call.intents[k].namespace))

\* "systemfoo" was accepted earlier and is bound, and the latest call is
\* rejected for "SYSTEM." alone
C2_Witness ==
    /\ call.result = "Err"
    /\ call.intents =
           << IntentConfiguration(<<"S","Y","S","T","E","M",".">>, "Discover") >>
    /\ IntentConfiguration(<<"s","y","s","t","e","m","f","o","o">>, "Discover")
           \in DOMAIN external_services_by_intent

\* two successful upserts in a row with the same id
SameIdTwice ==
    /\ tracked
    /\ Len(history) >= 2
    /\ Previous.result = "Ok"
    /\ Last.result = "Ok"
    /\ Previous.config.id = Last.config.id

\* C3 as stated: after upsert(S, I) and upsert(S2, I2) with S2.id = S.id,
\* has_service(S) is false and has_service(S2) is true, also when S2 = S.
C3_AsStated ==
    SameIdTwice =>
        /\ ~has_service(known_services, Previous.config)
        /\ has_service(known_services, Last.config)

\* C3 amended: has_service(S2) is true, and has_service(S) is false exactly
\* when S2 differs from S in endpoint or locality.
C3_IdentityReplace ==
    SameIdTwice =>
        /\ has_service(known_services, Last.config)
        /\ has_service(known_services, Previous.config)
               <=> (Previous.config = Last.config)

\* the second upsert changed endpoint or locality
C3_Witness ==
    /\ SameIdTwice
    /\ Previous.config # Last.config
    /\ known_services = {Last.config}

\* C4: the batch of one upsert holds at most one Change per intent.
C4_OneChangePerIntent ==
    \A n \in DOMAIN refresh_calls :
        \A j, k \in DOMAIN refresh_calls[n].changes :
            refresh_calls[n].changes[j].intent = refresh_calls[n].changes[k].intent
                => j = k

\* an intent from which the service was pruned is bound again, twice in the
\* same list
C4_Witness ==
    /\ call.result = "Ok"
    /\ Len(call.intents) = 2
    /\ call.intents[1] = call.intents[2]
    /\ call.intents[1] \in BoundBefore
    /\ Len(refresh_calls) = 1
    /\ Len(refresh_calls[1].changes) = 1

\* C5: the kind of every Change is the net effect against the state before
\* the call: Add for an intent that had no entry and has one, Remove for one
\* that had an entry and has none, Modify for one that has an entry before
\* and after.
C5_KindIsNetEffect ==
    call.result = "Ok" =>
        \A n \in DOMAIN refresh_calls :
            \A k \in DOMAIN refresh_calls[n].changes :
                LET change == refresh_calls[n].changes[k]
                    before == change.intent \in DOMAIN pre_external_services_by_intent
                    after  == change.intent \in DOMAIN external_services_by_intent
                IN  /\ change.kind \in ChangeKind
                    /\ (change.kind = "Add")    <=> (~before /\ after)
                    /\ (change.kind = "Remove") <=> (before /\ ~after)
                    /\ (change.kind = "Modify") <=> (before /\ after)

\* the only service of an intent is replaced under its id, and another
\* intent loses its only service: a Modify and a Remove in one batch
C5_Witness ==
    /\ call.result = "Ok"
    /\ Len(refresh_calls) = 1
    /\ \E j, k \in DOMAIN refresh_calls[1].changes :
          /\ refresh_calls[1].changes[j].kind = "Modify"
          /\ refresh_calls[1].changes[j].intent \in BoundBefore
          /\ Cardinality(pre_external_services_by_intent[
                 refresh_calls[1].changes[j].intent]) = 1
          /\ refresh_calls[1].changes[k].kind = "Remove"

\* the calls of the scenario are the first calls since Registry::new
ScenarioPrefix(n) ==
    /\ tracked
    /\ Len(history) = n
    /\ n >= 1 => (history[1].config = A /\ history[1].intents = <<I1>>)
    /\ n >= 2 => (history[2].config = B /\ history[2].intents = <<I1>>)
    /\ n >= 3 => (history[3].config = A_url /\ history[3].intents = <<I2>>)

\* C6: from an empty registry, upsert(A,[I1]) and upsert(B,[I1]) bind I1 to
\* {A,B}; upsert(A',[I2]), A' being A with a new endpoint, then notifies the
\* observer once with the batch {Modify(I1,{B}), Add(I2,{A'})}, after which
\* has_service(A) is false and has_service(A') is true.
C6_EndToEnd ==
    /\ ScenarioPrefix(2) =>
          /\ history[1].result = "Ok"
          /\ history[2].result = "Ok"
          /\ DOMAIN external_services_by_intent = {I1}
          /\ external_services_by_intent[I1] = {A, B}
    /\ ScenarioPrefix(3) =>
          /\ history[3].result = "Ok"
          /\ Len(refresh_calls) = 1
          /\ Len(refresh_calls[1].changes) = 2
          /\ Range(refresh_calls[1].changes)
                 = { [kind |-> "Modify", intent |-> I1, services |-> {B}],
                     [kind |-> "Add", intent |-> I2, services |-> {A_url}] }
          /\ ~has_service(known_services, A)
          /\ has_service(known_services, A_url)

\* the three calls of the scenario have been made
C6_Witness ==
    /\ ScenarioPrefix(3)
    /\ call.config = A_url
    /\ pre_known_services = {A, B}

\* C7: services whose id differs from the id of the upserted configuration,
\* the same name with another version included, are untouched: they stay
\* known, and they are bound to an intent after the call iff they were
\* before it.
C7_OtherServicesUntouched ==
    call.result # "None" =>
        \A s \in AllServices :
            s.id # call.config.id =>
                /\ has_service(known_services, s) = has_service(pre_known_services, s)
                /\ \A i \in IntentsInPlay :
                       (s \in Binding(external_services_by_intent, i))
                           <=> (s \in Binding(pre_external_services_by_intent, i))

\* a service is pruned from an intent that it shared with another version
\* of the same name
C7_Witness ==
    /\ call.result = "Ok"
    /\ \E i \in BoundBefore :
          /\ i \notin Range(call.intents)
          /\ \E s \in Binding(external_services_by_intent, i) :
                /\ s.id[1] = call.config.id[1]
                /\ s.id[2] # call.config.id[2]
                /\ has_service(known_services, s)

\* the intents a successful call touches: those it prunes the id from and
\* those it binds
Touched == BoundBefore \cup Range(call.intents)

\* C8: a successful upsert invokes the observer once when there are changes
\* and not at all when there are none; no upsert invokes it twice.
C8_NotifiedOnce ==
    /\ Len(refresh_calls) <= 1
    /\ \A n \in DOMAIN refresh_calls : Len(refresh_calls[n].changes) > 0
    /\ call.result = "Ok" =>
          /\ Touched # {} => Len(refresh_calls) = 1
          /\ Touched = {} => Len(refresh_calls) = 0

\* one invocation carrying two changes
C8_Witness ==
    /\ call.result = "Ok"
    /\ Len(refresh_calls) = 1
    /\ Len(refresh_calls[1].changes) = 2
    /\ BoundBefore # {}

\* the last two calls are the same upsert(s, [i])
SameCallTwice ==
    /\ tracked
    /\ Len(history) >= 2
    /\ Len(Last.intents) = 1
    /\ Previous.config = Last.config
    /\ Previous.intents = Last.intents

\* C9: upsert(A,[I1]) repeated with identical values notifies the observer
\* again, with exactly one change, Modify(I1, ..), that carries the services
\* of I1, A among them (A alone when these are the only calls); nothing is
\* suppressed although the state is the state before the call.
C9_ReupsertNotifies ==
    SameCallTwice =>
        /\ Last.result = "Ok"
        /\ external_services_by_intent = pre_external_services_by_intent
        /\ known_services = pre_known_services
        /\ Len(refresh_calls) = 1
        /\ refresh_calls[1].changes =
               << [kind |-> "Modify", intent |-> Last.intents[1],
                   services |-> pre_external_services_by_intent[Last.intents[1]]] >>
        /\ Last.config \in refresh_calls[1].changes[1].services
        /\ Len(history) = 2 => refresh_calls[1].changes[1].services = {Last.config}

\* upsert(A,[I1]) twice on a new registry
C9_Witness ==
    /\ SameCallTwice
    /\ Len(history) = 2
    /\ Last.config = A
    /\ Last.intents = <<I1>>
    /\ Len(refresh_calls) = 1

\* the last call has no intents and its id was in no call before it
EmptyFirstUpsert ==
    /\ tracked
    /\ Len(history) >= 1
    /\ Last.intents = << >>
    /\ \A k \in 1..(Len(history) - 1) : history[k].config.id # Last.config.id

\* C10: upsert(S, []) for an id never upserted before succeeds, makes
\* has_service(S) true, creates no binding and does not invoke the observer.
C10_EmptyIntentsOfNewService ==
    EmptyFirstUpsert =>
        /\ Last.result = "Ok"
        /\ has_service(known_services, Last.config)
        /\ external_services_by_intent = pre_external_services_by_intent
        /\ \A i \in DOMAIN external_services_by_intent :
               \A s \in external_services_by_intent[i] : s.id # Last.config.id
        /\ refresh_calls = << >>

\* a new service without intents joins a registry that holds a bound service
C10_Witness ==
    /\ EmptyFirstUpsert
    /\ Len(history) = 2
    /\ history[1].result = "Ok"
    /\ external_services_by_intent # << >>
    /\ has_service(known_services, Last.config)

\* the services of an intent before the latest call, those of the call's id
\* taken out
Remaining(intent) ==
    {s \in pre_external_services_by_intent[intent] : s.id # call.config.id}

\* a registered service is upserted again with no intents
ReupsertWithoutIntents ==
    /\ call.result = "Ok"
    /\ call.intents = << >>
    /\ \E s \in pre_known_services : s.id = call.config.id

\* C11: upserting a registered service again with an empty intent list takes
\* it out of every intent it was bound to and notifies one change for each
\* of these intents, Remove where it was the only service and Modify with
\* the remaining services otherwise; the service stays known and is bound
\* to nothing.
C11_ReupsertWithoutIntentsPrunes ==
    ReupsertWithoutIntents =>
        /\ has_service(known_services, call.config)
        /\ \A i \in DOMAIN external_services_by_intent :
               \A s \in external_services_by_intent[i] : s.id # call.config.id
        /\ \A i \in BoundBefore :
               Binding(external_services_by_intent, i) = Remaining(i)
        /\ BoundBefore = {} => refresh_calls = << >>
        /\ BoundBefore # {} =>
              /\ Len(refresh_calls) = 1
              /\ Len(refresh_calls[1].changes) = Cardinality(BoundBefore)
              /\ Range(refresh_calls[1].changes) =
                     { IF Remaining(i) = {}
                       THEN [kind |-> "Remove", intent |-> i]
                       ELSE [kind |-> "Modify", intent |-> i, services |-> Remaining(i)]
                       : i \in BoundBefore }

\* the service leaves one intent that it held alone and one that it shared
C11_Witness ==
    /\ ReupsertWithoutIntents
    /\ \E i, j \in BoundBefore : Remaining(i) = {} /\ Remaining(j) # {}

\* C12: known_services holds at most one configuration per ServiceId, and
\* for every id upserted with success it holds the configuration of the most
\* recent successful upsert of that id, and nothing else.
C12_KnownIsLatestPerId ==
    /\ \A s, t \in known_services : s.id = t.id => s = t
    /\ tracked =>
          /\ \A k \in DOMAIN history :
                 (/\ history[k].result = "Ok"
                  /\ \A j \in (k + 1)..Len(history) :
                         history[j].result = "Ok"
                             => history[j].config.id # history[k].config.id)
                     => has_service(known_services, history[k].config)
          /\ \A s \in known_services :
                 \E k \in DOMAIN history :
                     history[k].result = "Ok" /\ history[k].config = s

\* an id is upserted, another one is, and the first comes back with a new
\* endpoint
C12_Witness ==
    /\ tracked
    /\ Len(history) = 3
    /\ history[1].config = A
    /\ history[2].config = B
    /\ history[3].config = A_url
    /\ known_services = {A_url, B}

\* C13: after any sequence of upserts, accepted or rejected, every service
\* bound to an intent has its id in known_services.
C13_BoundServicesAreKnown ==
    \A i \in DOMAIN external_services_by_intent :
        \A s \in external_services_by_intent[i] :
            \E k \in known_services : k.id = s.id

\* two versions of a name share an intent, one of them was just upserted
\* again elsewhere, and then a call was rejected
C13_Witness ==
    /\ call.result = "Err"
    /\ \E i \in DOMAIN external_services_by_intent :
           \E s \in external_services_by_intent[i] :
               /\ s.id # call.config.id
               /\ s.id[1] = call.config.id[1]
    /\ \E k \in known_services : k.id = call.config.id

\* C14: no entry of the intent index is an empty set, neither between the
\* calls nor when the observer is notified: an entry that loses its last
\* service is deleted.
C14_NoEmptyEntry ==
    /\ \A i \in DOMAIN external_services_by_intent :
           external_services_by_intent[i] # {}
    /\ \A n \in DOMAIN refresh_calls :
           \A i \in DOMAIN refresh_calls[n].registry.external_services_by_intent :
               refresh_calls[n].registry.external_services_by_intent[i] # {}

\* an intent lost its last service in the latest call and has no entry
C14_Witness ==
    /\ call.result = "Ok"
    /\ Len(refresh_calls) = 1
    /\ \E i \in BoundBefore :
          /\ Remaining(i) = {}
          /\ i \notin DOMAIN external_services_by_intent

\* C15: no intent with a reserved namespace is ever a key of the intent
\* index.
C15_NoReservedKey ==
    \A i \in DOMAIN external_services_by_intent :
        /\ i.namespace \notin ReservedExamples
        /\ ~ReservedInGeneral(i.namespace)

\* both namespaces that are not reserved are keys, "systemfoo" among them,
\* after a call that named a reserved one was turned down
C15_Witness ==
    /\ call.result = "Err"
    /\ Len(call.intents) = 2
    /\ ~ReservedInGeneral(call.intents[1].namespace)
    /\ Cardinality(DOMAIN external_services_by_intent) = 2

\* C16: an Add or a Modify of a batch carries the services the intent has
\* when the whole upsert is done, and the intent has an entry when the
\* observer is notified; a Remove names an intent that has none.
C16_ChangesCarryFinalState ==
    \A n \in DOMAIN refresh_calls :
        \A k \in DOMAIN refresh_calls[n].changes :
            LET change == refresh_calls[n].changes[k]
                seen   == refresh_calls[n].registry.external_services_by_intent
            IN  IF change.kind = "Remove"
                THEN /\ change.intent \notin DOMAIN seen
                     /\ change.intent \notin DOMAIN external_services_by_intent
                ELSE /\ change.intent \in DOMAIN seen
                     /\ change.intent \in DOMAIN external_services_by_intent
                     /\ change.services = seen[change.intent]
                     /\ change.services = external_services_by_intent[change.intent]

\* a service is replaced under its id in an intent it shares: the Modify
\* carries the new configuration and the other service, not the pruned set
C16_Witness ==
    /\ call.result = "Ok"
    /\ Len(refresh_calls) = 1
    /\ \E k \in DOMAIN refresh_calls[1].changes :
          LET change == refresh_calls[1].changes[k]
          IN  /\ change.kind = "Modify"
              /\ change.intent \in BoundBefore
              /\ call.config \notin pre_external_services_by_intent[change.intent]
              /\ Remaining(change.intent) # {}
              /\ change.services = Remaining(change.intent) \cup {call.config}

\* C17: when on_change is invoked the registry holds what upsert leaves on
\* return: has_service of the upserted configuration is true and the
\* configuration it supersedes is gone.
C17_NotifiedAfterCommit ==
    \A n \in DOMAIN refresh_calls :
        /\ refresh_calls[n].registry.external_services_by_intent
               = external_services_by_intent
        /\ refresh_calls[n].registry.known_services = known_services
        /\ has_service(refresh_calls[n].registry.known_services, call.config)
        /\ \A s \in pre_known_services :
               (s.id = call.config.id /\ s # call.config)
                   => ~has_service(refresh_calls[n].registry.known_services, s)

\* the observer is notified by a call that supersedes a configuration
C17_Witness ==
    /\ Len(refresh_calls) = 1
    /\ \E s \in pre_known_services : s.id = call.config.id /\ s # call.config
    /\ has_service(refresh_calls[1].registry.known_services, call.config)

\* C20: the panic of the change tracker is never reached, whatever the
\* configurations and the intent lists, repeated intents included: every
\* (prior, new) pair met is one of the six that the match accepts.
C20_NoImpossibleTransition ==
    call.result # "Panic"

\* Remove then Add, then Modify on Modify: an intent held by the service
\* alone is bound twice in one list
C20_Witness ==
    /\ call.result = "Ok"
    /\ Len(call.intents) = 2
    /\ call.intents[1] = call.intents[2]
    /\ call.intents[1] \in BoundBefore
    /\ Remaining(call.intents[1]) = {}
    /\ Cardinality(BoundBefore) = 2


----------------------------------------------------------------------------
\* C18: a Composite hands one batch to its left observer and then to its right
\* one, each exactly once and each the same sequence of changes; nested
\* Composites reach the wrapped observers from left to right.
RECURSIVE Leaves(_)
Leaves(target) ==
    IF target.kind = "Composite"
    THEN Leaves(target.left) \o Leaves(target.right)
    ELSE << target.name >>

C18_CompositeFanOut ==
    LET names == Leaves(observer)
        k     == Len(names)
    IN  /\ Len(deliveries) = k * Len(refresh_calls)
        /\ \A n \in 1..Len(refresh_calls) : \A j \in 1..k :
               deliveries[(n - 1) * k + j]
                   = [observer |-> names[j], changes |-> refresh_calls[n].changes]

C18_Witness ==
    /\ observer.kind = "Composite"
    /\ observer.left.kind = "Composite"
    /\ Len(refresh_calls) = 1
    /\ Len(refresh_calls[1].changes) = 2
    /\ Len(deliveries) = 3
    /\ deliveries[1].observer = "left"
    /\ deliveries[3].observer = "right"

----------------------------------------------------------------------------
\* C19: serve_subscriptions for a channel id that no open created a channel
\* for returns FailedPrecondition, "The specified client does not exist.",
\* and spawns no serving task.
ServedUnknownClient ==
    /\ serve_call.result.code # "None"
    /\ serve_call.channel_id \notin serve_call.opened

C19_UnknownClientFails ==
    ServedUnknownClient =>
        /\ ~serve_call.result.ok
        /\ serve_call.result.code = "FailedPrecondition"
        /\ serve_call.result.message = "The specified client does not exist."
        /\ spawned = << >>

C19_Witness ==
    /\ ServedUnknownClient
    /\ serve_call.channel_id = "client"
    /\ serve_call.sources = << "test-event-a" >>
    /\ serve_call.opened # {}
    /\ serve_call.result.code = "FailedPrecondition"
    /\ spawned = << >>


----------------------------------------------------------------------------
\* C21: transition follows the merge table: with no mark the new kind is
\* stored; Remove then Add, Modify then Modify and Add then Modify store
\* Modify, Modify and Add; each of the other six pairs panics and stores
\* nothing.
Transitioned == tracker_call.to # "None"

MergeTable ==
    [from \in {"None"} \cup ChangeKind |-> [to \in ChangeKind |->
        CASE from = "None" -> to
          [] from = "Remove" /\ to = "Add" -> "Modify"
          [] from = "Modify" /\ to = "Modify" -> "Modify"
          [] from = "Add" /\ to = "Modify" -> "Add"
          [] OTHER -> "Panic"]]

C21_MergeTable ==
    Transitioned =>
        LET merged == MergeTable[tracker_call.from][tracker_call.to]
        IN  IF merged = "Panic"
            THEN /\ tracker.panicked
                 /\ tracker.map = tracker_call.before
            ELSE /\ ~tracker.panicked
                 /\ DOMAIN tracker.map
                        = (DOMAIN tracker_call.before) \cup {tracker_call.intent}
                 /\ tracker.map[tracker_call.intent] = merged
                 /\ \A i \in DOMAIN tracker_call.before :
                        i # tracker_call.intent
                            => tracker.map[i] = tracker_call.before[i]

C21_Witness ==
    /\ Transitioned
    /\ tracker_call.from = "Modify"
    /\ tracker_call.to = "Add"
    /\ tracker.panicked
    /\ Cardinality(DOMAIN tracker.map) = 2

----------------------------------------------------------------------------
\* C22: after a successful upsert(S, I) an intent is bound to a service with
\* the id of S exactly when it occurs in I, and that service is S itself;
\* an intent repeated in I changes nothing in the state that results.
PreRegistry == [external_services_by_intent |-> pre_external_services_by_intent,
                known_services |-> pre_known_services]

RECURSIVE Dedup(_)
Dedup(seq) ==
    IF seq = << >>
    THEN << >>
    ELSE LET front == Dedup(SubSeq(seq, 1, Len(seq) - 1))
         IN  IF seq[Len(seq)] \in Range(front)
             THEN front
             ELSE Append(front, seq[Len(seq)])

C22_BoundExactlyToSubmitted ==
    call.result = "Ok" =>
        /\ \A i \in IntentsInPlay \cup Range(call.intents) :
               {s \in Binding(external_services_by_intent, i) : s.id = call.config.id}
                   = IF i \in Range(call.intents) THEN {call.config} ELSE {}
        /\ Registry = upsert_mutation(PreRegistry, call.config,
                                      Dedup(call.intents)).registry

C22_Witness ==
    /\ call.result = "Ok"
    /\ call.config = A_url
    /\ call.intents = <<I1, I1>>
    /\ A \in Binding(pre_external_services_by_intent, I2)
    /\ I2 \notin DOMAIN external_services_by_intent
    /\ external_services_by_intent[I1] = {A_url, A_v2}

----------------------------------------------------------------------------
\* C23: the intents of the batch of a successful upsert(S, I) are exactly the
\* intents to which the id of S was bound before the call and the intents of
\* I; no other intent appears in the batch.
BatchIntents ==
    UNION {{refresh_calls[n].changes[k].intent : k \in DOMAIN refresh_calls[n].changes} :
              n \in DOMAIN refresh_calls}

C23_BatchCoversTouched ==
    call.result = "Ok" => BatchIntents = BoundBefore \cup Range(call.intents)

C23_Witness ==
    /\ call.result = "Ok"
    /\ BoundBefore = {I1}
    /\ call.intents = <<I2>>
    /\ A_v2 \in Binding(external_services_by_intent, I1)
    /\ BatchIntents = {I1, I2}

----------------------------------------------------------------------------
\* C24: upsert is idempotent on the state: an upsert(S, I) that follows the
\* same upsert(S, I) leaves the intent index and the known services as the
\* first one left them.
C24_Idempotent ==
    [][(call'.config = call.config /\ call'.intents = call.intents)
          => /\ external_services_by_intent' = external_services_by_intent
             /\ known_services' = known_services]_vars

C24_Witness ==
    /\ tracked
    /\ Len(history) = 3
    /\ Previous.config = Last.config
    /\ Previous.intents = Last.intents
    /\ Last.result = "Ok"
    /\ Len(Last.intents) = 2
    /\ history[1].config.id # Last.config.id
    /\ history[1].intents # << >>
    /\ Registry = PreRegistry

----------------------------------------------------------------------------
\* C27: an intent is never bound to two configurations with the same
\* ServiceId; configurations that differ in url or locality only are never
\* bound to one intent together.
C27_OneConfigurationPerId ==
    \A i \in DOMAIN external_services_by_intent :
        \A s, t \in external_services_by_intent[i] : s.id = t.id => s = t

C27_Witness ==
    /\ call.result = "Ok"
    /\ call.config = A_url
    /\ A \in Binding(pre_external_services_by_intent, I1)
    /\ A_v2 \in Binding(pre_external_services_by_intent, I1)
    /\ call.intents = <<I1>>
    /\ external_services_by_intent[I1] = {A_url, A_v2}

----------------------------------------------------------------------------
\* C28: an upsert rejected for a reserved namespace does not invoke the
\* observer, whatever the service was bound to before the call.
C28_RejectionIsSilent ==
    call.result = "Err" =>
        /\ refresh_calls = << >>
        /\ deliveries = << >>

C28_Witness ==
    /\ call.result = "Err"
    /\ call.intents = <<I1, ISystem>>
    /\ BoundBefore = {I1, I2}
    /\ \E s \in pre_external_services_by_intent[I1] : s.id # call.config.id
    /\ refresh_calls = << >>

----------------------------------------------------------------------------
\* C25: a stream of subscribe(topic) yields, in the order of arrival, exactly
\* the messages of that topic among the items it took from the channel;
\* other topics and the None of a lost connection yield nothing and do not
\* end it; it ends only when the channel is closed.
OfTopic(topic, items) ==
    SelectSeq(items, LAMBDA m : m.some /\ m.topic = topic)

C25_StreamFiltersByTopic ==
    \A id \in DOMAIN streams :
        LET stream == streams[id]
        IN  /\ stream.yielded = OfTopic(stream.topic, stream.taken)
            /\ \A j, k \in DOMAIN stream.taken :
                   j < k => stream.taken[j].number < stream.taken[k].number
            /\ stream.ended => closed /\ receiver = << >>
            /\ DOMAIN streams = {id} =>
                   LET items == stream.taken \o receiver
                   IN  /\ Len(items) = arrivals
                       /\ \A k \in DOMAIN items : items[k].number = k

C25_Witness ==
    /\ DOMAIN streams = {"first"}
    /\ streams["first"].topic = "c2d/1"
    /\ Len(streams["first"].taken) = 3
    /\ ~streams["first"].taken[1].some
    /\ streams["first"].taken[2].topic = "c2d/2"
    /\ streams["first"].taken[3].topic = "c2d/1"
    /\ Len(streams["first"].yielded) = 1
    /\ ~streams["first"].ended
    /\ ~closed

----------------------------------------------------------------------------
\* C26: with two streams of different topics consumed together, a message
\* that arrives for the topic of one is never taken from the shared channel
\* and dropped by the stream of the other.
C26_NoMessageStolen ==
    \A id, other \in DOMAIN streams :
        streams[id].topic # streams[other].topic =>
            \A k \in DOMAIN streams[other].taken :
                LET message == streams[other].taken[k]
                IN  ~ /\ message.some
                      /\ message.topic = streams[id].topic
                      /\ message.number > streams[id].since
                      /\ message.number > streams[other].since

====
